---- MODULE Spec2Model ----
(* A model of the PriorityQueue of src/pq.go together with the            *)
(* container/heap routines (Push, Pop, Fix, up, down) it is driven by.    *)
(* Slots are zero-based as in the Go code; the TLA+ sequence pq holds     *)
(* slot i at position i+1.  Items live in `item`, a sequence of records   *)
(* indexed by handle (the *Item pointer); a handle stays valid for the    *)
(* caller after the item was extracted.                                   *)
EXTENDS Integers, Sequences, FiniteSets

\* ---------------------------------------------------------------- bounds
MaxItems == 4
MaxPriority == 0

Priorities == (-1)..MaxPriority
Values == {"a"}
Handles == 1..MaxItems
EmptyErr == "PriorityQueue is empty.  No top priority."

VARIABLES pq, item, panicked, call, nInsert, nExtract, extracted, sifts
vars == <<pq, item, panicked, call, nInsert, nExtract, extracted, sifts>>

\* ------------------------------------------------------ the Go data types
\* type Item struct { value string; priority int64; index int }
Item(v, p) == [value |-> v, priority |-> p, index |-> 0]

\* The heap seen by the methods: the slice, the items it points to,
\* whether a run-time panic (index out of range) has been raised, and the
\* number of swaps the sift loops (up, down) have made during the call.
Heap(q, it) == [pq |-> q, item |-> it, panic |-> FALSE, sifts |-> 0]

\* One more iteration of a sift loop has swapped.
Sifted(s) == [s EXCEPT !.sifts = @ + 1]

\* Go's integer division truncates toward zero.
GoDiv(a, b) == IF a >= 0 THEN a \div b ELSE -((-a) \div b)

\* func (pq PriorityQueue) Len() int
PQLen(s) == Len(s.pq)

InRange(s, i) == i >= 0 /\ i < PQLen(s)

\* pq[i]: the handle in slot i
At(s, i) == s.pq[i + 1]

\* Less with a non-strict comparison.
LessOrEqual(s, i, j) == s.item[At(s, i)].priority >= s.item[At(s, j)].priority

\* func (pq PriorityQueue) Less(i, j int) bool
Less(s, i, j) == s.item[At(s, i)].priority > s.item[At(s, j)].priority

\* Swap with the two index assignments (lines 44-45) left out.
SwapNoIndex(s, i, j) ==
  IF s.panic THEN s
  ELSE IF ~InRange(s, i) \/ ~InRange(s, j) THEN [s EXCEPT !.panic = TRUE]
  ELSE [s EXCEPT !.pq = [s.pq EXCEPT ![i + 1] = s.pq[j + 1], ![j + 1] = s.pq[i + 1]]]

\* Swap that copies slot j into slot i and loses what slot i held.
SwapDup(s, i, j) ==
  IF s.panic THEN s
  ELSE IF ~InRange(s, i) \/ ~InRange(s, j) THEN [s EXCEPT !.panic = TRUE]
  ELSE LET q1 == [s.pq EXCEPT ![i + 1] = s.pq[j + 1]]
           it1 == [s.item EXCEPT ![q1[i + 1]].index = i]
           it2 == [it1 EXCEPT ![q1[j + 1]].index = j]
       IN [s EXCEPT !.pq = q1, !.item = it2]

\* func (pq PriorityQueue) Swap(i, j int)
Swap(s, i, j) ==
  IF s.panic THEN s
  ELSE IF ~InRange(s, i) \/ ~InRange(s, j) THEN [s EXCEPT !.panic = TRUE]
  ELSE LET q1 == [s.pq EXCEPT ![i + 1] = s.pq[j + 1], ![j + 1] = s.pq[i + 1]]
           it1 == [s.item EXCEPT ![q1[i + 1]].index = i]
           it2 == [it1 EXCEPT ![q1[j + 1]].index = j]
       IN [s EXCEPT !.pq = q1, !.item = it2]

\* func (pq *PriorityQueue) Push(x interface{})
Push(s, x) ==
  IF s.panic THEN s
  ELSE LET n == PQLen(s)
       IN [s EXCEPT !.item = [s.item EXCEPT ![x].index = n],
                    !.pq = Append(s.pq, x)]

\* Pop with the truncation *pq = old[0 : n-1] left out.
PopNoShrink(s) ==
  IF s.panic THEN [s |-> s, x |-> 0]
  ELSE LET n == PQLen(s)
       IN IF n = 0 THEN [s |-> [s EXCEPT !.panic = TRUE], x |-> 0]
          ELSE LET x == s.pq[n]
               IN [s |-> [s EXCEPT !.item = [s.item EXCEPT ![x].index = -1]],
                   x |-> x]

\* Pop with the assignment item.index = -1 left out.
PopKeepIndex(s) ==
  IF s.panic THEN [s |-> s, x |-> 0]
  ELSE LET n == PQLen(s)
       IN IF n = 0 THEN [s |-> [s EXCEPT !.panic = TRUE], x |-> 0]
          ELSE [s |-> [s EXCEPT !.pq = SubSeq(s.pq, 1, n - 1)], x |-> s.pq[n]]

\* Pop that takes the item of slot 0 instead of the last one.
PopFirst(s) ==
  IF s.panic THEN [s |-> s, x |-> 0]
  ELSE LET n == PQLen(s)
       IN IF n = 0 THEN [s |-> [s EXCEPT !.panic = TRUE], x |-> 0]
          ELSE LET x == s.pq[1]
               IN [s |-> [s EXCEPT !.item = [s.item EXCEPT ![x].index = -1],
                                   !.pq = Tail(s.pq)],
                   x |-> x]

\* func (pq *PriorityQueue) Pop() interface{}
\* Result: the heap afterwards and the handle returned (0 when it panicked).
Pop(s) ==
  IF s.panic THEN [s |-> s, x |-> 0]
  ELSE LET n == PQLen(s)
       IN IF n = 0 THEN [s |-> [s EXCEPT !.panic = TRUE], x |-> 0]
          ELSE LET x == s.pq[n]
               IN [s |-> [s EXCEPT !.item = [s.item EXCEPT ![x].index = -1],
                                   !.pq = SubSeq(s.pq, 1, n - 1)],
                   x |-> x]

\* ------------------------------------------------ container/heap routines
\* up that takes slot j-1 for the parent of slot j.
RECURSIVE upLinear(_, _)
upLinear(s, j) ==
  IF s.panic THEN s
  ELSE LET i == IF j > 0 THEN j - 1 ELSE j
       IN IF i = j THEN s
          ELSE IF ~InRange(s, i) \/ ~InRange(s, j) THEN [s EXCEPT !.panic = TRUE]
          ELSE IF ~Less(s, j, i) THEN s
          ELSE upLinear(Sifted(Swap(s, i, j)), i)

\* func up(h Interface, j int)
RECURSIVE up(_, _)
up(s, j) ==
  IF s.panic THEN s
  ELSE LET i == GoDiv(j - 1, 2)
       IN IF i = j THEN s
          ELSE IF ~InRange(s, i) \/ ~InRange(s, j) THEN [s EXCEPT !.panic = TRUE]
          ELSE IF ~Less(s, j, i) THEN s
          ELSE up(Sifted(Swap(s, i, j)), i)

\* The loop of down that takes slot i+1 for the only child of slot i.
RECURSIVE downLinear(_, _, _)
downLinear(s, i, n) ==
  IF s.panic THEN [s |-> s, i |-> i]
  ELSE LET j == i + 1
       IN IF j >= n \/ j < 0 THEN [s |-> s, i |-> i]
          ELSE IF ~InRange(s, j) \/ ~InRange(s, i) THEN [s |-> [s EXCEPT !.panic = TRUE], i |-> i]
          ELSE IF ~Less(s, j, i) THEN [s |-> s, i |-> i]
          ELSE downLinear(Sifted(Swap(s, i, j)), j, n)

\* The loop of func down(h Interface, i0, n int): result is the heap and
\* the slot i at which the loop stopped.
RECURSIVE downLoop(_, _, _)
downLoop(s, i, n) ==
  IF s.panic THEN [s |-> s, i |-> i]
  ELSE LET j1 == 2 * i + 1
       IN IF j1 >= n \/ j1 < 0 THEN [s |-> s, i |-> i]
          ELSE IF ~InRange(s, j1) \/ ~InRange(s, i) THEN [s |-> [s EXCEPT !.panic = TRUE], i |-> i]
          ELSE LET j2 == j1 + 1
                   j == IF j2 < n /\ Less(s, j2, j1) THEN j2 ELSE j1
               IN IF ~Less(s, j, i) THEN [s |-> s, i |-> i]
                  ELSE downLoop(Sifted(Swap(s, i, j)), j, n)

\* func down(h Interface, i0, n int) bool
down(s, i0, n) ==
  LET r == downLoop(s, i0, n)
  IN [s |-> r.s, moved |-> r.i > i0]

\* func heap.Push(h Interface, x any)
heapPush(s, x) ==
  LET s1 == Push(s, x)
  IN up(s1, PQLen(s1) - 1)

\* heap.Pop with the sift-down of the new root left out.
heapPopNoDown(s) ==
  LET n == PQLen(s) - 1
  IN Pop(Swap(s, 0, n))

\* heap.Pop that hands back the last slot without moving the root there.
heapPopNoSwap(s) == Pop(s)

\* func heap.Pop(h Interface) any
heapPop(s) ==
  LET n == PQLen(s) - 1
      s1 == Swap(s, 0, n)
      s2 == down(s1, 0, n).s
  IN Pop(s2)

\* func heap.Remove(h Interface, i int) any
heapRemove(s, i) ==
  LET n == PQLen(s) - 1
  IN IF n # i
     THEN LET s1 == Swap(s, i, n)
              r == down(s1, i, n)
          IN Pop(IF ~r.moved THEN up(r.s, i) ELSE r.s)
     ELSE Pop(s)

\* heap.Fix that sifts down only and never up.
heapFixDownOnly(s, i) == down(s, i, PQLen(s)).s

\* func heap.Fix(h Interface, i int)
heapFix(s, i) ==
  LET r == down(s, i, PQLen(s))
  IN IF ~r.moved THEN up(r.s, i) ELSE r.s

\* Update with the call of heap.Fix left out.
UpdateNoFix(s, x, priority) ==
  [s EXCEPT !.item = [s.item EXCEPT ![x].priority = priority]]

\* Update with the assignment item.priority = priority left out.
UpdateNoSet(s, x, priority) == heapFix(s, s.item[x].index)

\* func (pq *PriorityQueue) Update(item *Item, priority int64)
Update(s, x, priority) ==
  LET s1 == [s EXCEPT !.item = [s.item EXCEPT ![x].priority = priority]]
  IN heapFix(s1, s1.item[x].index)

\* The alternative Update's comment names: heap.Remove the item, give it
\* the new priority, heap.Push it back.
RemoveThenPush(s, x, priority) ==
  LET r == heapRemove(s, s.item[x].index)
      s1 == [r.s EXCEPT !.item = [r.s.item EXCEPT ![r.x].priority = priority]]
  IN heapPush(s1, r.x)

\* peakTopPriority returning the -1 fallback with a nil error.
peakSentinel(s) ==
  IF PQLen(s) > 0
  THEN [s |-> s, priority |-> s.item[At(s, 0)].priority, err |-> "nil"]
  ELSE [s |-> s, priority |-> -1, err |-> "nil"]

\* peakTopPriority that removes the root it reports.
peakDestructive(s) ==
  IF PQLen(s) > 0
  THEN [s |-> heapPop(s).s, priority |-> s.item[At(s, 0)].priority, err |-> "nil"]
  ELSE [s |-> s, priority |-> -1, err |-> EmptyErr]

\* func (pq *PriorityQueue) peakTopPriority() (int64, error)
\* The receiver is a pointer, so the heap afterwards is part of the result.
peakTopPriority(s) ==
  IF PQLen(s) > 0
  THEN [s |-> s, priority |-> s.item[At(s, 0)].priority, err |-> "nil"]
  ELSE [s |-> s, priority |-> -1, err |-> EmptyErr]

\* ------------------------------------------------------------ the machine
Init ==
  /\ pq = <<>>
  /\ item = <<>>
  /\ panicked = FALSE
  /\ call = [op |-> "new", x |-> 0, p |-> 0, err |-> "nil"]
  /\ sifts = 0
  /\ nInsert = 0
  /\ nExtract = 0
  /\ extracted = {}

ErrOf(s) == IF s.panic THEN "panic" ELSE "nil"

\* What a traced run notes about the call besides its result: the number
\* of sift swaps it made.  An untraced run (t = FALSE) leaves the note alone.
Note(t, s) == IF t THEN s.sifts ELSE sifts

\* item := &Item{value: v, priority: p}; heap.Push(&pq, item)
Insert(v, p, t) ==
  /\ ~panicked
  /\ Len(item) < MaxItems
  /\ LET x == Len(item) + 1
         s == heapPush(Heap(pq, Append(item, Item(v, p))), x)
     IN /\ pq' = s.pq
        /\ item' = s.item
        /\ panicked' = s.panic
        /\ call' = [op |-> "insert", x |-> x, p |-> p, err |-> ErrOf(s)]
        /\ sifts' = Note(t, s)
  /\ nInsert' = nInsert + 1
  /\ UNCHANGED <<nExtract, extracted>>

\* heap.Pop(&pq)
Extract(t) ==
  /\ ~panicked
  /\ LET r == heapPop(Heap(pq, item))
     IN /\ pq' = r.s.pq
        /\ item' = r.s.item
        /\ panicked' = r.s.panic
        /\ call' = [op |-> "extract", x |-> r.x,
                    p |-> IF r.x = 0 THEN 0 ELSE r.s.item[r.x].priority,
                    err |-> ErrOf(r.s)]
        /\ sifts' = Note(t, r.s)
        /\ extracted' = IF r.x = 0 THEN extracted ELSE extracted \cup {r.x}
  /\ nExtract' = nExtract + 1
  /\ UNCHANGED nInsert

\* pq.Update(item, priority), for any handle the caller holds
DoUpdate(x, p, t) ==
  /\ ~panicked
  /\ x \in 1..Len(item)
  /\ LET s == Update(Heap(pq, item), x, p)
     IN /\ pq' = s.pq
        /\ item' = s.item
        /\ panicked' = s.panic
        /\ call' = [op |-> "update", x |-> x, p |-> p, err |-> ErrOf(s)]
        /\ sifts' = Note(t, s)
  /\ UNCHANGED <<nInsert, nExtract, extracted>>

\* pq.peakTopPriority()
Peek(t) ==
  /\ ~panicked
  /\ LET r == peakTopPriority(Heap(pq, item))
     IN /\ pq' = r.s.pq
        /\ item' = r.s.item
        /\ panicked' = r.s.panic
        /\ call' = [op |-> "peek", x |-> 0, p |-> r.priority, err |-> r.err]
        /\ sifts' = Note(t, r.s)
  /\ UNCHANGED <<nInsert, nExtract, extracted>>

Next ==
  \/ \E v \in Values, p \in Priorities : Insert(v, p, FALSE)
  \/ Extract(FALSE)
  \/ \E x \in Handles, p \in Priorities : DoUpdate(x, p, FALSE)
  \/ Peek(FALSE)

Spec == Init /\ [][Next]_vars

\* The same calls, with the note about each call kept.
NextTrace ==
  \/ \E v \in Values, p \in Priorities : Insert(v, p, TRUE)
  \/ Extract(TRUE)
  \/ \E x \in Handles, p \in Priorities : DoUpdate(x, p, TRUE)
  \/ Peek(TRUE)

SpecTrace == Init /\ [][NextTrace]_vars

\* pq.Pop(): the heap.Interface method called on the queue directly
RawPop(t) ==
  /\ ~panicked
  /\ LET r == Pop(Heap(pq, item))
     IN /\ pq' = r.s.pq
        /\ item' = r.s.item
        /\ panicked' = r.s.panic
        /\ call' = [op |-> "pop", x |-> r.x,
                    p |-> IF r.x = 0 THEN 0 ELSE r.s.item[r.x].priority,
                    err |-> ErrOf(r.s)]
        /\ sifts' = Note(t, r.s)
        /\ extracted' = IF r.x = 0 THEN extracted ELSE extracted \cup {r.x}
  /\ UNCHANGED <<nInsert, nExtract>>

\* The calls of Next and the direct call of Pop.
NextRaw ==
  \/ \E v \in Values, p \in Priorities : Insert(v, p, FALSE)
  \/ Extract(FALSE)
  \/ \E x \in Handles, p \in Priorities : DoUpdate(x, p, FALSE)
  \/ Peek(FALSE)
  \/ RawPop(FALSE)

SpecRaw == Init /\ [][NextRaw]_vars

\* -------------------------------------------------------------- vocabulary
Slots == 0..(Len(pq) - 1)
Tracked == {pq[k] : k \in 1..Len(pq)}
Parent(i) == GoDiv(i - 1, 2)
PrioAt(i) == item[pq[i + 1]].priority

TypeOK ==
  /\ pq \in Seq(Handles)
  /\ Len(item) <= MaxItems
  /\ \A x \in 1..Len(item) : /\ item[x].value \in Values
                             /\ item[x].priority \in Priorities
                             /\ item[x].index \in (-1)..(MaxItems - 1)
  /\ panicked \in BOOLEAN

\* Priorities handed back by extracting until the queue is empty.
RECURSIVE Drain(_)
Drain(s) ==
  IF s.panic \/ PQLen(s) = 0 THEN <<>>
  ELSE LET r == heapPop(s)
       IN IF r.s.panic THEN <<>>
          ELSE <<r.s.item[r.x].priority>> \o Drain(r.s)

Count(seq, p) == Cardinality({k \in 1..Len(seq) : seq[k] = p})
SlotPriorities == [k \in 1..Len(pq) |-> item[pq[k]].priority]

\* ------------------------------------------------------------------ claims

IndexBookkeeping ==
  /\ \A i \in Slots : item[pq[i + 1]].index = i
  /\ \A i, j \in Slots : i # j => pq[i + 1] # pq[j + 1]
  /\ {item[x].index : x \in Tracked} = Slots

\* An extraction has moved items: the slots are no longer in insertion order.
IndexBookkeepingWitness ==
  /\ call.op = "extract"
  /\ call.err = "nil"
  /\ Len(pq) >= 3
  /\ \E i, j \in Slots : i < j /\ pq[i + 1] > pq[j + 1]

MinHeapTop == \A i \in Slots : PrioAt(0) <= PrioAt(i)

\* C5: extracting from an empty queue yields an explicit empty-queue
\* result: no crash, no value returned, and the queue is still empty.
ExtractEmptySignalsEmpty ==
  [][(call'.op = "extract" /\ Len(pq) = 0 /\ ~panicked)
       => /\ ~panicked'
          /\ call'.err = "EmptyQueue"
          /\ call'.x = 0
          /\ Len(pq') = 0]_vars

\* C6: size accounting. As long as no extraction was applied to an empty
\* queue, Len() is the number of inserts minus the number of extractions;
\* Update and peek leave both counts alone, so they never change Len().
SizeAccounting == ~panicked => Len(pq) = nInsert - nExtract

\* Inserts and extractions have interleaved and an Update came last.
SizeAccountingWitness ==
  /\ ~panicked
  /\ call.op = "update"
  /\ nInsert >= 3
  /\ nExtract >= 1
  /\ Len(pq) >= 2

\* C7: peek is read-only. A peek leaves the slots and every item's value,
\* priority and index as they were, and a peek that follows a peek returns
\* the same (priority, error) result.
PeekReadOnly ==
  [][call'.op = "peek"
       => /\ pq' = pq
          /\ item' = item
          /\ panicked' = panicked
          /\ call.op = "peek" => (call'.p = call.p /\ call'.err = call.err)]_vars

\* A peek has acted on a queue of several items.
PeekReadOnlyWitness ==
  /\ call.op = "peek"
  /\ call.err = "nil"
  /\ Len(pq) >= 3

\* C8: peek signals emptiness explicitly. The error is non-nil exactly when
\* the queue holds no items; otherwise the error is nil and the priority
\* returned is the root's, also when that priority is -1.
PeekSignalsEmpty ==
  [][call'.op = "peek"
       => /\ (call'.err # "nil") <=> (Len(pq) = 0)
          /\ Len(pq) > 0 => (call'.err = "nil" /\ call'.p = PrioAt(0))]_vars

\* A peek has returned priority -1 with a nil error from a non-empty queue.
PeekSignalsEmptyWitness ==
  /\ call.op = "peek"
  /\ call.err = "nil"
  /\ call.p = -1
  /\ Len(pq) >= 1
  /\ PrioAt(0) = -1

\* C9: Update changes only the target's priority. For a tracked item x,
\* Update(x, p) sets x's priority to p and leaves the size, the set of
\* tracked items, every value and every other item's priority unchanged.
UpdateFrame ==
  [][(call'.op = "update" /\ item[call'.x].index # -1)
       => /\ item'[call'.x].priority = call'.p
          /\ Len(pq') = Len(pq)
          /\ Tracked' = Tracked
          /\ Len(item') = Len(item)
          /\ \A y \in 1..Len(item) :
               /\ item'[y].value = item[y].value
               /\ y # call'.x => item'[y].priority = item[y].priority]_vars

\* An Update has acted on a tracked item that is not alone in the queue.
UpdateFrameWitness ==
  /\ call.op = "update"
  /\ item[call.x].index >= 0
  /\ item[call.x].priority = call.p
  /\ Len(pq) >= 3
  /\ \E i \in Slots : PrioAt(i) # call.p

\* C10: Update with a stale handle (index -1) raises an invalid-handle
\* condition and leaves the slots and every tracked item unchanged.
StaleUpdateRaisesInvalidHandle ==
  [][(call'.op = "update" /\ item[call'.x].index = -1)
       => /\ call'.err = "InvalidHandle"
          /\ pq' = pq
          /\ \A y \in Tracked : item'[y] = item[y]]_vars

\* C11: extraction removes the root and invalidates its handle. On a
\* non-empty queue an extraction returns the item that was in slot 0, that
\* item's index is -1 afterwards and it is in no slot; and after any step
\* no tracked item has index -1.
ExtractRemovesRoot ==
  [][/\ (call'.op = "extract" /\ Len(pq) > 0 /\ ~panicked)
          => /\ call'.err = "nil"
             /\ call'.x = pq[1]
             /\ item'[call'.x].index = -1
             /\ call'.x \notin Tracked'
     /\ \A y \in Tracked' : item'[y].index # -1]_vars

\* An extraction has returned the root of a queue of four and the last
\* item took a slot other than the last.
ExtractRemovesRootWitness ==
  /\ call.op = "extract"
  /\ call.err = "nil"
  /\ item[call.x].index = -1
  /\ Len(pq) >= 3
  /\ call.x \notin Tracked

\* C14: peek agrees with extraction. On a non-empty queue peek returns the
\* priority of slot 0, and an extraction that follows a peek at once
\* returns an item of the priority the peek reported.
PeekAgreesWithExtract ==
  [][/\ (call'.op = "peek" /\ Len(pq) > 0)
          => (call'.err = "nil" /\ call'.p = PrioAt(0))
     /\ (call.op = "peek" /\ call.err = "nil" /\ call'.op = "extract")
          => /\ call'.err = "nil"
             /\ call'.p = call.p
             /\ item'[call'.x].priority = call.p]_vars

\* A peek has reported the root's priority on a queue that holds a lower
\* priority as well, so the extraction that may follow has a choice.
PeekAgreesWithExtractWitness ==
  /\ call.op = "peek"
  /\ call.err = "nil"
  /\ call.p = PrioAt(0)
  /\ \E i \in Slots : PrioAt(i) < call.p

\* C17: Update to the same priority is a no-op. For a tracked item,
\* Update(item, item.priority) leaves every slot, priority and index as
\* it was.
UpdateSamePriorityNoOp ==
  [][(/\ call'.op = "update"
      /\ item[call'.x].index # -1
      /\ call'.p = item[call'.x].priority)
       => (pq' = pq /\ item' = item /\ panicked' = panicked)]_vars

\* An Update has acted without a sift swap on the item in slot 1, whose
\* parent and whose child both carry the new priority: by the heap order
\* the item had that priority before the call.
UpdateSamePriorityNoOpWitness ==
  /\ call.op = "update"
  /\ Len(pq) >= 4
  /\ item[call.x].index = 1
  /\ sifts = 0
  /\ item[call.x].priority = call.p
  /\ PrioAt(0) = call.p
  /\ PrioAt(3) = call.p

\* Height of a heap of n items: the floor of the binary logarithm of n.
RECURSIVE Height(_)
Height(n) == IF n <= 1 THEN 0 ELSE 1 + Height(n \div 2)

\* C13: logarithmic cost. The sift swaps of an insert, an extraction or an
\* Update number at most the height of the heap (of the size after an
\* insert, before an extraction), and a peek makes none.
SiftCost ==
  /\ call.op = "insert" => sifts <= Height(Len(pq))
  /\ call.op = "extract" => sifts <= Height(Len(pq) + 1)
  /\ call.op = "update" => sifts <= Height(Len(pq))
  /\ call.op = "peek" => sifts = 0

\* An Update on a queue of four has sifted through the full height.
SiftCostWitness ==
  /\ call.op = "update"
  /\ Len(pq) = 4
  /\ sifts = 2
  /\ sifts = Height(Len(pq))

\* Slots on the path from slot i to the root.
RECURSIVE PathTo(_)
PathTo(i) == IF i <= 0 THEN {0} ELSE {i} \cup PathTo(Parent(i))

\* C15: insert touches only the leaf-to-root path. Inserting into a queue
\* of size n leaves the new item in a slot on the path from slot n to the
\* root; every item off that path keeps its slot and index, and every
\* item that was there before keeps its value and priority.
InsertPath ==
  [][call'.op = "insert"
       => LET n == Len(pq)
              x == call'.x
          IN /\ Len(pq') = n + 1
             /\ item'[x].index \in PathTo(n)
             /\ pq'[item'[x].index + 1] = x
             /\ item'[x].priority = call'.p
             /\ \A i \in 0..(n - 1) :
                  i \notin PathTo(n)
                    => /\ pq'[i + 1] = pq[i + 1]
                       /\ item'[pq[i + 1]].index = i
             /\ \A y \in 1..Len(item) :
                  /\ item'[y].value = item[y].value
                  /\ item'[y].priority = item[y].priority]_vars

\* An insert into a queue of three has sifted the new item from slot 3 to
\* the root, past slot 2, which is off the path.
InsertPathWitness ==
  /\ call.op = "insert"
  /\ Len(pq) = 4
  /\ item[call.x].index = 0
  /\ PrioAt(0) > PrioAt(2)

\* Heap order and index fields of a heap value, as HeapOrder and
\* IndexBookkeeping state them of the queue.
ValidHeap(s) ==
  /\ ~s.panic
  /\ \A i \in 1..(PQLen(s) - 1) :
       s.item[At(s, Parent(i))].priority >= s.item[At(s, i)].priority
  /\ \A i \in 0..(PQLen(s) - 1) : s.item[At(s, i)].index = i

\* C12: fix-in-place equals remove-then-push. For a tracked item,
\* Update(item, p) and heap.Remove followed by heap.Push with priority p
\* both end with a valid heap order and valid index fields, track the same
\* items with the same priorities, and drain to the same sequence of
\* priorities.
FixEqualsRemovePush ==
  [][(call'.op = "update" /\ item[call'.x].index # -1)
       => \A a \in {Heap(pq', item')},
             b \in {RemoveThenPush(Heap(pq, item), call'.x, call'.p)} :
             /\ ValidHeap(a)
             /\ ValidHeap(b)
             /\ {a.pq[k] : k \in 1..Len(a.pq)} = {b.pq[k] : k \in 1..Len(b.pq)}
             /\ Len(a.pq) = Len(b.pq)
             /\ \A y \in 1..Len(item) :
                  /\ a.item[y].priority = b.item[y].priority
                  /\ a.item[y].value = b.item[y].value
             /\ \/ (a.pq = b.pq /\ a.item = b.item)
                \/ Drain(a) = Drain(b)]_vars

\* An Update has raised an item of a queue of four to the root, above
\* the others.
FixEqualsRemovePushWitness ==
  /\ call.op = "update"
  /\ Len(pq) = 4
  /\ call.x = pq[1]
  /\ item[call.x].priority = call.p
  /\ \E i \in Slots : PrioAt(i) < call.p

\* C16: item conservation. The items in the slots are exactly the inserted
\* items that no extraction has returned, each in exactly one slot, also
\* when items share a value or a priority.
ItemConservation ==
  /\ Len(item) = nInsert
  /\ Tracked = (1..Len(item)) \ extracted
  /\ Cardinality(Tracked) = Len(pq)
  /\ extracted \subseteq 1..Len(item)

\* After inserts, an extraction and an Update, two tracked items carry the
\* same value and the same priority.
ItemConservationWitness ==
  /\ call.op = "update"
  /\ extracted # {}
  /\ Len(pq) >= 3
  /\ \E i, j \in Slots :
       /\ i # j
       /\ PrioAt(i) = PrioAt(j)
       /\ item[pq[i + 1]].value = item[pq[j + 1]].value

\* C18: the raw Pop method, called on a non-empty queue, removes the item
\* of the last slot (not the root, when there is more than one item): it
\* returns that item, sets its index to -1, shortens the queue by one and
\* leaves every other slot, priority and index unchanged.
RawPopRemovesLast ==
  [][(call'.op = "pop" /\ Len(pq) > 0 /\ ~panicked)
       => \A n \in {Len(pq)} :
            /\ call'.err = "nil"
            /\ call'.x = pq[n]
            /\ n > 1 => call'.x # pq[1]
            /\ item'[pq[n]].index = -1
            /\ pq' = SubSeq(pq, 1, n - 1)
            /\ \A y \in 1..Len(item) :
                 /\ item'[y].value = item[y].value
                 /\ item'[y].priority = item[y].priority
                 /\ y # pq[n] => item'[y].index = item[y].index]_vars

\* A raw Pop has handed back a last item of lower priority than the root,
\* which is still in slot 0 of the two or more items left.
RawPopRemovesLastWitness ==
  /\ call.op = "pop"
  /\ call.err = "nil"
  /\ item[call.x].index = -1
  /\ Len(pq) >= 2
  /\ call.p < PrioAt(0)
====
